---- MODULE Spec2Model ----
(***************************************************************************)
(* Directed weighted graph container (eliasrilegard/dwg).                  *)
(*                                                                         *)
(* Two versions of the class DWG<Vertex, Weight> are modelled:             *)
(*   strict  : src/src/dwg.ts        (addVertex throws on a duplicate)     *)
(*   replace : src/unnamed/part_001  (addVertex replaces a duplicate)      *)
(*                                                                         *)
(* A JavaScript Map is modelled as the sequence of its entries <<key,      *)
(* value>> in insertion order, keys unique.  adjList is a Map from vertex  *)
(* to a Map from destination vertex to weight.                             *)
(***************************************************************************)
EXTENDS Integers, Sequences, FiniteSets, TLC

\* ---------------------------------------------------------------- bounds
NumVertices == 3
NumWeights == 2
MaxOps == 6

Vertices == 1..NumVertices
\* weights are numbers; 0 is the falsy one
Weights == 0..(NumWeights - 1)

VARIABLES variant, adjList, last, steps, hist

vars == <<variant, adjList, last, steps, hist>>

\* ------------------------------------------------- JavaScript semantics
\* ToBoolean of a number: only 0 (and NaN) is falsy
ToBoolean(w) == w # 0

MapHas(m, k) == \E i \in 1..Len(m) : m[i][1] = k

MapIndex(m, k) == CHOOSE i \in 1..Len(m) : m[i][1] = k

\* Map.prototype.get, to be used where MapHas holds (undefined otherwise)
MapGet(m, k) == m[MapIndex(m, k)][2]

\* Map.prototype.set: an existing key keeps its position
MapSet(m, k, x) ==
  IF MapHas(m, k) THEN [m EXCEPT ![MapIndex(m, k)] = <<k, x>>]
  ELSE Append(m, <<k, x>>)

MapDelete(m, k) == SelectSeq(m, LAMBDA e : e[1] # k)

MapKeys(m) == [i \in 1..Len(m) |-> m[i][1]]

MapSize(m) == Len(m)

\* outcome of a call: the graph afterwards, and what the caller sees
Return(adj, x) == [adj |-> adj, threw |-> FALSE, ret |-> x, err |-> "none"]

Throw(adj, e) == [adj |-> adj, threw |-> TRUE, ret |-> "none", err |-> e]

ErrDuplicate == "Vertex already exists in the graph"
ErrFirst == "First vertex doesn't exist in the graph"
ErrSecond == "Second vertex doesn't exist in the graph"
ErrFirstNotFound == "First vertex not found in the graph"
ErrSecondNotFound == "Second vertex not found in the graph"
ErrNoEdge == "No such edge exists in the graph"

\* --------------------------------------------- queries (both versions)
has(adj, v) == MapHas(adj, v)

vertexCount(adj) == MapSize(adj)

RECURSIVE edgeCountFrom(_, _)
edgeCountFrom(adj, i) ==
  IF i > Len(adj) THEN 0 ELSE MapSize(adj[i][2]) + edgeCountFrom(adj, i + 1)

\* slip: the loop starts at the second vertex
edgeCount_SkipFirst(adj) == edgeCountFrom(adj, 2)

edgeCount(adj) == edgeCountFrom(adj, 1)

\* slip: the edge map of the first vertex is read instead of the one of v
getEdges_First(adj, v) == IF ~MapHas(adj, v) THEN <<>> ELSE adj[1][2]

getEdges(adj, v) == IF ~MapHas(adj, v) THEN <<>> ELSE MapGet(adj, v)

getAllVertices(adj) == MapKeys(adj)

\* filterFn is given as the set of vertices it accepts
find(adj, accepted) == SelectSeq(MapKeys(adj), LAMBDA v : v \in accepted)

\* ------------------------------------------------------ strict version
\* slip: the duplicate check is missing
Strict_addVertex_NoCheck(adj, v) == Return(MapSet(adj, v, <<>>), "this")

Strict_addVertex(adj, v) ==
  IF MapHas(adj, v) THEN Throw(adj, ErrDuplicate)
  ELSE Return(MapSet(adj, v, <<>>), "this")

\* slip: the destination is checked before the origin
Strict_addEdge_SecondFirst(adj, v1, v2, w) ==
  IF ~MapHas(adj, v2) THEN Throw(adj, ErrSecond)
  ELSE IF ~MapHas(adj, v1) THEN Throw(adj, ErrFirst)
  ELSE Return(MapSet(adj, v1, MapSet(MapGet(adj, v1), v2, w)), "this")

Strict_addEdge(adj, v1, v2, w) ==
  IF ~MapHas(adj, v1) THEN Throw(adj, ErrFirst)
  ELSE IF ~MapHas(adj, v2) THEN Throw(adj, ErrSecond)
  ELSE Return(MapSet(adj, v1, MapSet(MapGet(adj, v1), v2, w)), "this")

\* `!weight` is true for a missing key (undefined) and for a falsy weight
Strict_removeEdge(adj, v1, v2) ==
  IF ~MapHas(adj, v1) THEN Throw(adj, ErrFirst)
  ELSE LET edgeMap == MapGet(adj, v1) IN
    IF ~MapHas(edgeMap, v2) \/ ~ToBoolean(MapGet(edgeMap, v2))
    THEN Throw(adj, ErrSecond)
    ELSE Return(MapSet(adj, v1, MapDelete(edgeMap, v2)), MapGet(edgeMap, v2))

\* the loop over edgeMap.keys(): removeEdge(destVertex, v) only ever deletes
\* the key v, so the keys visited are the keys present when the loop starts
RECURSIVE Strict_removeVertexLoop(_, _, _, _)
Strict_removeVertexLoop(adj, keys, i, v) ==
  IF i > Len(keys) THEN Return(adj, "none")
  ELSE LET r == Strict_removeEdge(adj, keys[i], v) IN
    IF r.threw THEN Throw(r.adj, r.err)
    ELSE Strict_removeVertexLoop(r.adj, keys, i + 1, v)

Strict_removeVertex(adj, v) ==
  IF ~MapHas(adj, v) THEN Return(adj, FALSE)
  ELSE LET r == Strict_removeVertexLoop(adj, MapKeys(MapGet(adj, v)), 1, v) IN
    IF r.threw THEN r
    ELSE Return(MapDelete(r.adj, v), TRUE)

Strict_getWeight(adj, v1, v2) ==
  IF ~MapHas(adj, v1) THEN Throw(adj, ErrFirstNotFound)
  ELSE LET edgeMap == MapGet(adj, v1) IN
    IF ~MapHas(edgeMap, v2) \/ ~ToBoolean(MapGet(edgeMap, v2))
    THEN Throw(adj, ErrSecondNotFound)
    ELSE Return(adj, MapGet(edgeMap, v2))

\* ----------------------------------------------------- replace version
RECURSIVE Replace_removeVertexLoop(_, _, _)
Replace_removeVertexLoop(adj, i, v) ==
  IF i > Len(adj) THEN adj
  ELSE IF adj[i][1] = v THEN Replace_removeVertexLoop(adj, i + 1, v)
  ELSE Replace_removeVertexLoop(
         [adj EXCEPT ![i] = <<adj[i][1], MapDelete(adj[i][2], v)>>], i + 1, v)

\* slip: the inbound edges of v are left in place
Replace_removeVertex_KeepInbound(adj, v) ==
  IF ~MapHas(adj, v) THEN Return(adj, FALSE)
  ELSE Return(MapDelete(adj, v), TRUE)

\* slip: true is returned for an absent vertex as well
Replace_removeVertex_AlwaysTrue(adj, v) ==
  Return(MapDelete(Replace_removeVertexLoop(adj, 1, v), v), TRUE)

Replace_removeVertex(adj, v) ==
  IF ~MapHas(adj, v) THEN Return(adj, FALSE)
  ELSE Return(MapDelete(Replace_removeVertexLoop(adj, 1, v), v), TRUE)

\* slip: a present vertex is overwritten without removeVertex
Replace_addVertex_NoRemove(adj, v) == Return(MapSet(adj, v, <<>>), "this")

Replace_addVertex(adj, v) ==
  LET a == IF MapHas(adj, v) THEN Replace_removeVertex(adj, v).adj ELSE adj
  IN Return(MapSet(a, v, <<>>), "this")

\* slip: the entry is appended instead of set
Replace_addEdge_Append(adj, v1, v2, w) ==
  IF ~MapHas(adj, v1) THEN Throw(adj, ErrFirst)
  ELSE IF ~MapHas(adj, v2) THEN Throw(adj, ErrSecond)
  ELSE Return(MapSet(adj, v1, Append(MapGet(adj, v1), <<v2, w>>)), "this")

Replace_addEdge(adj, v1, v2, w) ==
  IF ~MapHas(adj, v1) THEN Throw(adj, ErrFirst)
  ELSE IF ~MapHas(adj, v2) THEN Throw(adj, ErrSecond)
  ELSE Return(MapSet(adj, v1, MapSet(MapGet(adj, v1), v2, w)), "this")

\* slip: the edge map of the destination is used
Replace_removeEdge_Reversed(adj, v1, v2) ==
  IF ~MapHas(adj, v1) THEN Throw(adj, ErrFirst)
  ELSE IF ~MapHas(adj, v2) THEN Throw(adj, ErrSecond)
  ELSE LET edgeMap == MapGet(adj, v2) IN
    Return(MapSet(adj, v2, MapDelete(edgeMap, v1)), MapHas(edgeMap, v1))

Replace_removeEdge(adj, v1, v2) ==
  IF ~MapHas(adj, v1) THEN Throw(adj, ErrFirst)
  ELSE IF ~MapHas(adj, v2) THEN Throw(adj, ErrSecond)
  ELSE LET edgeMap == MapGet(adj, v1) IN
    Return(MapSet(adj, v1, MapDelete(edgeMap, v2)), MapHas(edgeMap, v2))

\* slip: the destination is not checked, a missing vertex reads as a missing edge
Replace_getWeight_NoSecondCheck(adj, v1, v2) ==
  IF ~MapHas(adj, v1) THEN Throw(adj, ErrFirst)
  ELSE LET edgeMap == MapGet(adj, v1) IN
    IF ~MapHas(edgeMap, v2) THEN Throw(adj, ErrNoEdge)
    ELSE Return(adj, MapGet(edgeMap, v2))

\* slip: the edge is looked up in the edge map of the destination
Replace_getWeight_Reversed(adj, v1, v2) ==
  IF ~MapHas(adj, v1) THEN Throw(adj, ErrFirst)
  ELSE IF ~MapHas(adj, v2) THEN Throw(adj, ErrSecond)
  ELSE LET edgeMap == MapGet(adj, v2) IN
    IF ~MapHas(edgeMap, v1) THEN Throw(adj, ErrNoEdge)
    ELSE Return(adj, MapGet(edgeMap, v1))

Replace_getWeight(adj, v1, v2) ==
  IF ~MapHas(adj, v1) THEN Throw(adj, ErrFirst)
  ELSE IF ~MapHas(adj, v2) THEN Throw(adj, ErrSecond)
  ELSE LET edgeMap == MapGet(adj, v1) IN
    IF ~MapHas(edgeMap, v2) THEN Throw(adj, ErrNoEdge)
    ELSE Return(adj, MapGet(edgeMap, v2))

\* queries of the replace version
Replace_has(adj, v) == MapHas(adj, v)

Replace_vertexCount(adj) == MapSize(adj)

RECURSIVE Replace_edgeCountFrom(_, _)
Replace_edgeCountFrom(adj, i) ==
  IF i > Len(adj) THEN 0
  ELSE MapSize(adj[i][2]) + Replace_edgeCountFrom(adj, i + 1)

Replace_edgeCount(adj) == Replace_edgeCountFrom(adj, 1)

Replace_find(adj, accepted) == SelectSeq(MapKeys(adj), LAMBDA v : v \in accepted)

Replace_getEdges(adj, v) == IF ~MapHas(adj, v) THEN <<>> ELSE MapGet(adj, v)

Replace_getAllVertices(adj) == MapKeys(adj)

\* ------------------------------------------------------- state machine
NoCall == [op |-> "new", v1 |-> 0, v2 |-> 0, w |-> 0, pre |-> <<>>,
           threw |-> FALSE, ret |-> "none", err |-> "none"]

Call(op, v1, v2, w, r) ==
  [op |-> op, v1 |-> v1, v2 |-> v2, w |-> w, pre |-> adjList,
   threw |-> r.threw, ret |-> r.ret, err |-> r.err]

\* hist is the caller's record of the calls made so far: the triples
\* <<v1, v2, w>> such that the latest addEdge(v1, v2, .) that returned carried
\* w and no removeEdge(v1, v2) that returned, no removeVertex and no
\* addVertex of v1 or v2 was called since
HistAfter(op, v1, v2, w, r) ==
  LET pair == {t \in hist : t[1] = v1 /\ t[2] = v2}
      touching == {t \in hist : t[1] = v1 \/ t[2] = v1}
  IN
  IF op = "addEdge" /\ ~r.threw THEN (hist \ pair) \cup {<<v1, v2, w>>}
  ELSE IF op = "removeEdge" /\ ~r.threw THEN hist \ pair
  ELSE IF op \in {"removeVertex", "addVertex"} THEN hist \ touching
  ELSE hist

\* the caller receives r; the graph is whatever the call left behind
Apply(op, v1, v2, w, r) ==
  /\ steps < MaxOps
  /\ adjList' = r.adj
  /\ last' = Call(op, v1, v2, w, r)
  /\ steps' = steps + 1
  /\ hist' = HistAfter(op, v1, v2, w, r)
  /\ UNCHANGED variant

\* a query: the caller receives r; queries are not counted in steps
Observe(op, v1, v2, r) ==
  /\ adjList' = r.adj
  /\ last' = Call(op, v1, v2, 0, r)
  /\ UNCHANGED <<variant, steps, hist>>

Init ==
  /\ variant \in {"strict", "replace"}
  /\ adjList = <<>>
  /\ last = NoCall
  /\ steps = 0
  /\ hist = {}

StrictAddVertex ==
  /\ variant = "strict"
  /\ \E v \in Vertices : Apply("addVertex", v, 0, 0, Strict_addVertex(adjList, v))

StrictAddEdge ==
  /\ variant = "strict"
  /\ \E v1 \in Vertices, v2 \in Vertices, w \in Weights :
       Apply("addEdge", v1, v2, w, Strict_addEdge(adjList, v1, v2, w))

StrictRemoveEdge ==
  /\ variant = "strict"
  /\ \E v1 \in Vertices, v2 \in Vertices :
       Apply("removeEdge", v1, v2, 0, Strict_removeEdge(adjList, v1, v2))

StrictRemoveVertex ==
  /\ variant = "strict"
  /\ \E v \in Vertices : Apply("removeVertex", v, 0, 0, Strict_removeVertex(adjList, v))

ReplaceAddVertex ==
  /\ variant = "replace"
  /\ \E v \in Vertices : Apply("addVertex", v, 0, 0, Replace_addVertex(adjList, v))

ReplaceAddEdge ==
  /\ variant = "replace"
  /\ \E v1 \in Vertices, v2 \in Vertices, w \in Weights :
       Apply("addEdge", v1, v2, w, Replace_addEdge(adjList, v1, v2, w))

ReplaceRemoveEdge ==
  /\ variant = "replace"
  /\ \E v1 \in Vertices, v2 \in Vertices :
       Apply("removeEdge", v1, v2, 0, Replace_removeEdge(adjList, v1, v2))

ReplaceRemoveVertex ==
  /\ variant = "replace"
  /\ \E v \in Vertices : Apply("removeVertex", v, 0, 0, Replace_removeVertex(adjList, v))

StrictGetWeight ==
  /\ variant = "strict"
  /\ \E v1 \in Vertices, v2 \in Vertices :
       Observe("getWeight", v1, v2, Strict_getWeight(adjList, v1, v2))

ReplaceGetWeight ==
  /\ variant = "replace"
  /\ \E v1 \in Vertices, v2 \in Vertices :
       Observe("getWeight", v1, v2, Replace_getWeight(adjList, v1, v2))

StrictGetEdges ==
  /\ variant = "strict"
  /\ \E v \in Vertices :
       Observe("getEdges", v, 0, Return(adjList, getEdges(adjList, v)))

ReplaceGetEdges ==
  /\ variant = "replace"
  /\ \E v \in Vertices :
       Observe("getEdges", v, 0, Return(adjList, Replace_getEdges(adjList, v)))

Next ==
  \/ StrictAddVertex
  \/ StrictAddEdge
  \/ StrictRemoveEdge
  \/ StrictRemoveVertex
  \/ ReplaceAddVertex
  \/ ReplaceAddEdge
  \/ ReplaceRemoveEdge
  \/ ReplaceRemoveVertex
  \/ StrictGetWeight
  \/ ReplaceGetWeight
  \/ StrictGetEdges
  \/ ReplaceGetEdges

Spec == Init /\ [][Next]_vars

\* ------------------------------------------------- views of the graph
VertexSet(adj) == {adj[i][1] : i \in 1..Len(adj)}

\* every stored edge as <<origin, destination, weight>>
EdgeSet(adj) ==
  UNION {{<<adj[i][1], adj[i][2][j][1], adj[i][2][j][2]>> : j \in 1..Len(adj[i][2])}
         : i \in 1..Len(adj)}

\* keys of a Map are unique, in the outer and in every inner Map
WellFormed ==
  /\ \A i, j \in 1..Len(adjList) : adjList[i][1] = adjList[j][1] => i = j
  /\ \A i \in 1..Len(adjList) : \A j, k \in 1..Len(adjList[i][2]) :
       adjList[i][2][j][1] = adjList[i][2][k][1] => j = k

\* the arguments and the graph before the last call
InStrict == variant = "strict"
InReplace == variant = "replace"

\* does pre hold an edge o -> d (whatever its weight)
EdgeIn(adj, o, d) == \E e \in EdgeSet(adj) : e[1] = o /\ e[2] = d

\* edges of adj that do not touch v
EdgesAvoiding(adj, v) == {e \in EdgeSet(adj) : e[1] # v /\ e[2] # v}

\* ------------------------------------------------------------------ C1
\* C1: replace version: in every reachable state every stored edge (o, d)
\* has o and d in the vertex set, so getEdges(v) never lists a destination
\* d with has(d) false.
C1_NoDanglingEdge ==
  InReplace =>
    /\ \A e \in EdgeSet(adjList) :
         e[1] \in VertexSet(adjList) /\ e[2] \in VertexSet(adjList)
    /\ \A v \in Vertices : \A i \in 1..Len(getEdges(adjList, v)) :
         has(adjList, getEdges(adjList, v)[i][1])

\* a vertex with an inbound edge from another vertex has just been removed
C1_Witness ==
  /\ InReplace
  /\ last.op = "removeVertex"
  /\ \E u \in Vertices : u # last.v1 /\ EdgeIn(last.pre, u, last.v1)
  /\ EdgeSet(adjList) # {}

\* ------------------------------------------------------------------ C2
\* C2: strict version: removeVertex(v) of a present vertex v returns true
\* (does not throw), afterwards has(v) is false and no remaining vertex has
\* an outgoing edge to v.
C2_StrictRemoveVertexCleans ==
  (InStrict /\ last.op = "removeVertex" /\ has(last.pre, last.v1)) =>
    /\ ~last.threw
    /\ last.ret = TRUE
    /\ ~has(adjList, last.v1)
    /\ \A e \in EdgeSet(adjList) : e[2] # last.v1

\* ------------------------------------------------------------------ C3
\* C3: strict version: a call that throws leaves the vertex set, the edge
\* set and all weights exactly as they were before the call.
C3_StrictThrowIsAtomic ==
  (InStrict /\ last.threw) =>
    /\ adjList = last.pre
    /\ VertexSet(adjList) = VertexSet(last.pre)
    /\ EdgeSet(adjList) = EdgeSet(last.pre)

\* ------------------------------------------------------------------ C4
\* C4: strict version: after addEdge(v1, v2, w) succeeds, for every weight
\* w (0 included), getWeight(v1, v2) returns w and removeEdge(v1, v2)
\* deletes the edge instead of throwing.
C4_StrictEdgeIndependentOfWeight ==
  (InStrict /\ last.op = "addEdge" /\ ~last.threw) =>
    /\ ~Strict_getWeight(adjList, last.v1, last.v2).threw
    /\ Strict_getWeight(adjList, last.v1, last.v2).ret = last.w
    /\ ~Strict_removeEdge(adjList, last.v1, last.v2).threw
    /\ ~EdgeIn(Strict_removeEdge(adjList, last.v1, last.v2).adj, last.v1, last.v2)

\* ------------------------------------------------------------------ C5
\* C5: replace version: removeVertex(v) returns true exactly when v was
\* present; an absent v leaves the graph unchanged; a present v leaves the
\* previous graph minus v and minus every edge touching v (self-loop
\* included), all other vertices and edges keeping their weights; an
\* immediately repeated removeVertex(v) returns false.
C5_ReplaceRemoveVertex ==
  (InReplace /\ last.op = "removeVertex") =>
    /\ ~last.threw
    /\ last.ret = has(last.pre, last.v1)
    /\ ~has(last.pre, last.v1) => adjList = last.pre
    /\ has(last.pre, last.v1) =>
         /\ VertexSet(adjList) = VertexSet(last.pre) \ {last.v1}
         /\ vertexCount(adjList) = vertexCount(last.pre) - 1
         /\ EdgeSet(adjList) = EdgesAvoiding(last.pre, last.v1)
    /\ ~Replace_removeVertex(adjList, last.v1).threw
    /\ Replace_removeVertex(adjList, last.v1).ret = FALSE
    /\ Replace_removeVertex(adjList, last.v1).adj = adjList

\* a present vertex with a self-loop and an inbound edge has been removed,
\* and an edge that does not touch it is still there
C5_Witness ==
  /\ InReplace
  /\ last.op = "removeVertex"
  /\ last.ret = TRUE
  /\ EdgeIn(last.pre, last.v1, last.v1)
  /\ \E u \in Vertices : u # last.v1 /\ EdgeIn(last.pre, u, last.v1)
  /\ EdgesAvoiding(last.pre, last.v1) # {}
  /\ EdgeSet(adjList) # {}

\* ------------------------------------------------------------------ C6
\* C6: both versions: addEdge(v1, v2, w) throws the 'First vertex' error
\* whenever v1 is absent (also when v2 is absent too), the 'Second vertex'
\* error when v1 is present and v2 is not, and in both cases vertexCount,
\* edgeCount and every existing edge are unchanged.
C6_AddEdgeErrors ==
  last.op = "addEdge" =>
    /\ ~has(last.pre, last.v1) => (last.threw /\ last.err = ErrFirst)
    /\ (has(last.pre, last.v1) /\ ~has(last.pre, last.v2)) =>
         (last.threw /\ last.err = ErrSecond)
    /\ last.threw =>
         /\ vertexCount(adjList) = vertexCount(last.pre)
         /\ edgeCount(adjList) = edgeCount(last.pre)
         /\ EdgeSet(adjList) = EdgeSet(last.pre)
         /\ adjList = last.pre

\* addEdge with both endpoints absent has thrown on a graph that has edges
C6_Witness ==
  /\ last.op = "addEdge"
  /\ ~has(last.pre, last.v1)
  /\ ~has(last.pre, last.v2)
  /\ last.v1 # last.v2
  /\ last.threw
  /\ EdgeSet(last.pre) # {}

\* ------------------------------------------------------------------ C7
\* C7: both versions: a successful addEdge(v1, v2, w) changes only the entry
\* of the ordered pair (v1, v2): getEdges(v1) then has exactly one entry for
\* v2, carrying w; edgeCount grows by one if no edge v1->v2 existed and is
\* unchanged otherwise; the vertex set, the reverse edge and every other
\* edge are unchanged.
C7_AddEdgeSetsOnePair ==
  (last.op = "addEdge" /\ ~last.threw) =>
    LET out == getEdges(adjList, last.v1)
        other(adj) == {e \in EdgeSet(adj) : ~(e[1] = last.v1 /\ e[2] = last.v2)}
    IN
    /\ Cardinality({i \in 1..Len(out) : out[i][1] = last.v2}) = 1
    /\ \A i \in 1..Len(out) : out[i][1] = last.v2 => out[i][2] = last.w
    /\ edgeCount(adjList) =
         edgeCount(last.pre) + (IF EdgeIn(last.pre, last.v1, last.v2) THEN 0 ELSE 1)
    /\ VertexSet(adjList) = VertexSet(last.pre)
    /\ getAllVertices(adjList) = getAllVertices(last.pre)
    /\ other(adjList) = other(last.pre)

\* an existing edge v1->v2 has been overwritten with another weight while
\* the reverse edge v2->v1 exists
C7_Witness ==
  /\ last.op = "addEdge"
  /\ ~last.threw
  /\ last.v1 # last.v2
  /\ EdgeIn(last.pre, last.v1, last.v2)
  /\ <<last.v1, last.v2, last.w>> \notin EdgeSet(last.pre)
  /\ EdgeIn(last.pre, last.v2, last.v1)

\* ------------------------------------------------------------------ C8
\* C8: replace version: removeEdge(v1, v2) throws the origin error if v1 is
\* absent and the destination error if v1 is present and v2 absent, graph
\* unchanged; with both present it returns true exactly when an edge v1->v2
\* existed, after which the edge is gone, edgeCount is one less and the
\* vertex set and all other edges are unchanged; it returns false and
\* changes nothing when no such edge existed; a second identical call
\* returns false.
C8_ReplaceRemoveEdge ==
  (InReplace /\ last.op = "removeEdge") =>
    /\ ~has(last.pre, last.v1) =>
         (last.threw /\ last.err = ErrFirst /\ adjList = last.pre)
    /\ (has(last.pre, last.v1) /\ ~has(last.pre, last.v2)) =>
         (last.threw /\ last.err = ErrSecond /\ adjList = last.pre)
    /\ (has(last.pre, last.v1) /\ has(last.pre, last.v2)) =>
         /\ ~last.threw
         /\ last.ret = EdgeIn(last.pre, last.v1, last.v2)
         /\ last.ret = TRUE =>
              /\ ~EdgeIn(adjList, last.v1, last.v2)
              /\ edgeCount(adjList) = edgeCount(last.pre) - 1
              /\ VertexSet(adjList) = VertexSet(last.pre)
              /\ getAllVertices(adjList) = getAllVertices(last.pre)
              /\ EdgeSet(adjList) =
                   {e \in EdgeSet(last.pre) : ~(e[1] = last.v1 /\ e[2] = last.v2)}
         /\ last.ret = FALSE => adjList = last.pre
         /\ ~Replace_removeEdge(adjList, last.v1, last.v2).threw
         /\ Replace_removeEdge(adjList, last.v1, last.v2).ret = FALSE

\* an existing edge v1->v2 has been removed while v2->v1 exists
C8_Witness ==
  /\ InReplace
  /\ last.op = "removeEdge"
  /\ ~last.threw
  /\ last.ret = TRUE
  /\ last.v1 # last.v2
  /\ EdgeIn(adjList, last.v2, last.v1)

\* ------------------------------------------------------------------ C9
\* C9: replace version: addVertex(v) never throws and afterwards has(v); if
\* v was present, afterwards v has no outgoing edges, no other vertex has an
\* edge to v, vertexCount is unchanged and every edge not touching v is
\* unchanged; if v was absent, vertexCount grows by one and no edge changes.
C9_ReplaceAddVertex ==
  (InReplace /\ last.op = "addVertex") =>
    /\ ~last.threw
    /\ has(adjList, last.v1)
    /\ has(last.pre, last.v1) =>
         /\ getEdges(adjList, last.v1) = <<>>
         /\ \A e \in EdgeSet(adjList) : e[2] # last.v1
         /\ vertexCount(adjList) = vertexCount(last.pre)
         /\ VertexSet(adjList) = VertexSet(last.pre)
         /\ EdgesAvoiding(adjList, last.v1) = EdgesAvoiding(last.pre, last.v1)
    /\ ~has(last.pre, last.v1) =>
         /\ vertexCount(adjList) = vertexCount(last.pre) + 1
         /\ VertexSet(adjList) = VertexSet(last.pre) \cup {last.v1}
         /\ EdgeSet(adjList) = EdgeSet(last.pre)

\* a present vertex with an outgoing and an inbound edge has been re-added
C9_Witness ==
  /\ InReplace
  /\ last.op = "addVertex"
  /\ has(last.pre, last.v1)
  /\ \E u \in Vertices : u # last.v1 /\ EdgeIn(last.pre, u, last.v1)
  /\ \E u \in Vertices : u # last.v1 /\ EdgeIn(last.pre, last.v1, u)
  /\ EdgeSet(adjList) # {}

\* ----------------------------------------------------------------- C10
\* C10: strict version: addVertex(v) of a present vertex throws and leaves
\* the graph unchanged (v keeps its outgoing and inbound edges, vertexCount
\* and edgeCount keep their values); of an absent vertex it adds v with no
\* outgoing edges and changes nothing else.
C10_StrictAddVertex ==
  (InStrict /\ last.op = "addVertex") =>
    /\ has(last.pre, last.v1) =>
         /\ last.threw
         /\ last.err = ErrDuplicate
         /\ adjList = last.pre
         /\ getEdges(adjList, last.v1) = getEdges(last.pre, last.v1)
         /\ EdgeSet(adjList) = EdgeSet(last.pre)
         /\ vertexCount(adjList) = vertexCount(last.pre)
         /\ edgeCount(adjList) = edgeCount(last.pre)
    /\ ~has(last.pre, last.v1) =>
         /\ ~last.threw
         /\ has(adjList, last.v1)
         /\ getEdges(adjList, last.v1) = <<>>
         /\ VertexSet(adjList) = VertexSet(last.pre) \cup {last.v1}
         /\ EdgeSet(adjList) = EdgeSet(last.pre)
         /\ \A u \in VertexSet(last.pre) : getEdges(adjList, u) = getEdges(last.pre, u)

\* addVertex of a present vertex with an outgoing and an inbound edge
C10_Witness ==
  /\ InStrict
  /\ last.op = "addVertex"
  /\ has(last.pre, last.v1)
  /\ \E u \in Vertices : u # last.v1 /\ EdgeIn(last.pre, u, last.v1)
  /\ \E u \in Vertices : u # last.v1 /\ EdgeIn(last.pre, last.v1, u)

\* ----------------------------------------------------------------- C11
\* C11 as stated: replace version: getWeight(v1, v2) fails with the origin
\* error if v1 is absent; if v1 is present and there is no edge v1->v2 it
\* fails with one and the same error whether v2 is absent or present but
\* unconnected.
C11_SameErrorForAbsentAndUnconnected ==
  (InReplace /\ last.op = "getWeight") =>
    /\ ~has(last.pre, last.v1) => (last.threw /\ last.err = ErrFirst)
    /\ (has(last.pre, last.v1) /\ ~EdgeIn(last.pre, last.v1, last.v2)) =>
         /\ last.threw
         /\ \A u \in Vertices : ~EdgeIn(adjList, last.v1, u) =>
              Replace_getWeight(adjList, last.v1, u).err = last.err

\* C11 amended: replace version: getWeight(v1, v2) fails with the origin
\* error if v1 is absent, with the destination ('Second vertex') error if
\* v1 is present and v2 is absent, and with the 'No such edge' error if
\* both are present and there is no edge v1->v2; the two last errors
\* differ, and the graph is unchanged.
C11_DistinctErrors ==
  (InReplace /\ last.op = "getWeight") =>
    /\ adjList = last.pre
    /\ ~has(last.pre, last.v1) => (last.threw /\ last.err = ErrFirst)
    /\ (has(last.pre, last.v1) /\ ~has(last.pre, last.v2)) =>
         (last.threw /\ last.err = ErrSecond)
    /\ (has(last.pre, last.v1) /\ has(last.pre, last.v2)
          /\ ~EdgeIn(last.pre, last.v1, last.v2)) =>
         (last.threw /\ last.err = ErrNoEdge)
    /\ ErrSecond # ErrNoEdge

\* getWeight(v1, v2) has thrown with v1 present and v2 absent, in a graph
\* where v1 is also unconnected to some present vertex
C11_Witness ==
  /\ InReplace
  /\ last.op = "getWeight"
  /\ last.threw
  /\ has(last.pre, last.v1)
  /\ ~has(last.pre, last.v2)
  /\ \E u \in VertexSet(adjList) : ~EdgeIn(adjList, last.v1, u)
  /\ EdgeSet(adjList) # {}

\* ----------------------------------------------------------------- C12
\* C12: replace version: at any point of any call sequence, getWeight(v1,
\* v2) returns w exactly when the most recent successful addEdge(v1, v2, .)
\* carried w and since then there was no successful removeEdge(v1, v2), no
\* removeVertex of v1 or v2 and no addVertex of v1 or v2; otherwise it
\* throws.  v1->v2 and v2->v1 are tracked independently.
C12_GetWeightFollowsHistory ==
  InReplace =>
    /\ \A v1 \in Vertices, v2 \in Vertices :
         LET r == Replace_getWeight(adjList, v1, v2) IN
           IF \E w \in Weights : <<v1, v2, w>> \in hist
           THEN ~r.threw /\ <<v1, v2, r.ret>> \in hist
           ELSE r.threw
    /\ \A t \in hist, u \in hist : (t[1] = u[1] /\ t[2] = u[2]) => t = u
    /\ last.op = "getWeight" =>
         IF \E w \in Weights : <<last.v1, last.v2, w>> \in hist
         THEN ~last.threw /\ <<last.v1, last.v2, last.ret>> \in hist
         ELSE last.threw

\* getWeight(v1, v2) has returned the weight of v1->v2 while v2->v1 carries
\* another weight and some other edge has been dropped from the history
C12_Witness ==
  /\ InReplace
  /\ last.op = "getWeight"
  /\ ~last.threw
  /\ last.v1 # last.v2
  /\ \E w \in Weights : w # last.ret /\ <<last.v2, last.v1, w>> \in hist
  /\ steps > Cardinality(VertexSet(adjList)) + Cardinality(hist)

\* ----------------------------------------------------------------- C13
\* C13: strict version: removeEdge(v1, v2) with v1 and v2 both present and
\* no edge v1->v2 returns false instead of raising, and removeEdge and
\* getWeight raise the destination ('Second vertex') error only when v2 is
\* not a vertex of the graph.
C13_StrictSecondErrorOnlyIfAbsent ==
  InStrict =>
    /\ (last.op = "removeEdge" /\ has(last.pre, last.v1) /\ has(last.pre, last.v2)
          /\ ~EdgeIn(last.pre, last.v1, last.v2)) =>
         (~last.threw /\ last.ret = FALSE)
    /\ (last.op \in {"removeEdge", "getWeight"} /\ last.threw
          /\ last.err \in {ErrSecond, ErrSecondNotFound}) =>
         ~has(last.pre, last.v2)

\* the queries of the version that is running, on the current graph
EdgeCountNow == IF InStrict THEN edgeCount(adjList) ELSE Replace_edgeCount(adjList)

VertexCountNow == IF InStrict THEN vertexCount(adjList) ELSE Replace_vertexCount(adjList)

AllVerticesNow ==
  IF InStrict THEN getAllVertices(adjList) ELSE Replace_getAllVertices(adjList)

GetEdgesNow(v) == IF InStrict THEN getEdges(adjList, v) ELSE Replace_getEdges(adjList, v)

\* sum of getEdges(vs[k]).length for k = i .. vs.length
RECURSIVE SumEdgesFrom(_, _)
SumEdgesFrom(vs, i) ==
  IF i > Len(vs) THEN 0 ELSE Len(GetEdgesNow(vs[i])) + SumEdgesFrom(vs, i + 1)

\* ----------------------------------------------------------------- C14
\* C14: both versions: in every reachable state edgeCount equals the sum of
\* getEdges(v).length over all vertices v currently in the graph, and
\* vertexCount equals the number of vertices returned by getAllVertices.
C14_CountsMatchEnumeration ==
  /\ EdgeCountNow = SumEdgesFrom(AllVerticesNow, 1)
  /\ VertexCountNow = Len(AllVerticesNow)
  /\ VertexCountNow = Cardinality(VertexSet(adjList))

\* the strict version holds an edge to a vertex that was removed, next to
\* a second edge, with two vertices left
C14_Witness ==
  /\ InStrict
  /\ \E e \in EdgeSet(adjList) : e[2] \notin VertexSet(adjList)
  /\ EdgeCountNow >= 2
  /\ VertexCountNow >= 2

\* ----------------------------------------------------------------- C15
\* C15: both versions: getEdges(v) never throws and never changes the
\* graph; for a present vertex it returns exactly the outgoing edges of v,
\* one (destination, weight) pair per destination and none of the edges
\* that point to v; for an absent vertex or one without outgoing edges it
\* returns the empty sequence.
C15_GetEdges ==
  last.op = "getEdges" =>
    LET out == {<<e[2], e[3]>> : e \in {t \in EdgeSet(last.pre) : t[1] = last.v1}}
    IN
    /\ ~last.threw
    /\ adjList = last.pre
    /\ {last.ret[i] : i \in 1..Len(last.ret)} = out
    /\ \A i, j \in 1..Len(last.ret) : last.ret[i][1] = last.ret[j][1] => i = j
    /\ (~has(last.pre, last.v1) \/ out = {}) => last.ret = <<>>

\* getEdges(v) has returned the outgoing edges of a vertex that also has an
\* inbound edge which is not among them
C15_Witness ==
  /\ last.op = "getEdges"
  /\ Len(last.ret) >= 1
  /\ \E e \in EdgeSet(adjList) :
       /\ e[2] = last.v1
       /\ e[1] # last.v1
       /\ \A i \in 1..Len(last.ret) : last.ret[i] # <<e[1], e[3]>>

\* ----------------------------------------------------------------- C16
\* C16: started from the same graph, the strict and the replace version
\* agree on addVertex of an absent vertex, on addEdge with any arguments and
\* on the queries has, find, getEdges, getAllVertices, vertexCount and
\* edgeCount: each call gives the same result or the same error in both and
\* leaves both graphs equal (so they can only diverge through addVertex of
\* a present vertex, removeEdge, removeVertex or getWeight).
C16_VersionsAgree ==
  /\ \A v \in Vertices :
       /\ ~MapHas(adjList, v) => Strict_addVertex(adjList, v) = Replace_addVertex(adjList, v)
       /\ has(adjList, v) = Replace_has(adjList, v)
       /\ getEdges(adjList, v) = Replace_getEdges(adjList, v)
  /\ \A v1 \in Vertices, v2 \in Vertices, w \in Weights :
       Strict_addEdge(adjList, v1, v2, w) = Replace_addEdge(adjList, v1, v2, w)
  /\ \A accepted \in SUBSET Vertices :
       find(adjList, accepted) = Replace_find(adjList, accepted)
  /\ getAllVertices(adjList) = Replace_getAllVertices(adjList)
  /\ vertexCount(adjList) = Replace_vertexCount(adjList)
  /\ edgeCount(adjList) = Replace_edgeCount(adjList)
  /\ last.op = "addEdge" =>
       LET other == IF InStrict
                    THEN Replace_addEdge(last.pre, last.v1, last.v2, last.w)
                    ELSE Strict_addEdge(last.pre, last.v1, last.v2, last.w)
       IN other.adj = adjList /\ other.threw = last.threw /\ other.err = last.err
  /\ (last.op = "addVertex" /\ ~MapHas(last.pre, last.v1)) =>
       LET other == IF InStrict
                    THEN Replace_addVertex(last.pre, last.v1)
                    ELSE Strict_addVertex(last.pre, last.v1)
       IN other.adj = adjList /\ other.threw = last.threw /\ other.err = last.err

\* the strict version has run addEdge on a graph the replace version cannot
\* be in as built by itself (it holds an edge to a removed vertex), and the
\* call threw because that vertex is absent
C16_Witness ==
  /\ InStrict
  /\ last.op = "addEdge"
  /\ last.threw
  /\ last.err = ErrSecond
  /\ \E e \in EdgeSet(adjList) : e[2] = last.v2
  /\ Replace_addEdge(last.pre, last.v1, last.v2, last.w).err = ErrSecond

====
